---------------------------- MODULE Spec2Model ----------------------------
(***************************************************************************)
(* Model of carpet's analysis-form unrolled networks                       *)
(* (src/carpet/lista_analysis.py) and of the primal/dual variable          *)
(* initialisation (src/carpet/utils.py).                                   *)
(*                                                                         *)
(* Numbers are exact rationals <<num, den>> (den > 0, lowest terms);       *)
(* tensors are sequences of rows.                                          *)
(***************************************************************************)
EXTENDS Integers, Sequences, FiniteSets, TLC

(* Python's None: the empty tuple, which is also the empty mapping {} *)
None == <<>>

-----------------------------------------------------------------------------
(* Rational arithmetic: the scalar type of every tensor entry.              *)

Abs(n) == IF n < 0 THEN -n ELSE n

RECURSIVE GCD(_, _)
GCD(a, b) == IF b = 0 THEN a ELSE GCD(b, a % b)

Norm(n, d) ==
    LET s == IF d < 0 THEN -1 ELSE 1
        g == GCD(Abs(n), Abs(d))
    IN  <<(s * n) \div g, (s * d) \div g>>

R(n) == <<n, 1>>
Frac(n, d) == Norm(n, d)
RAdd(a, b) == Norm(a[1] * b[2] + b[1] * a[2], a[2] * b[2])
RNeg(a) == <<-a[1], a[2]>>
RSub(a, b) == RAdd(a, RNeg(b))
RMul(a, b) == Norm(a[1] * b[1], a[2] * b[2])
RDiv(a, b) == Norm(a[1] * b[2], a[2] * b[1])
RLt(a, b) == a[1] * b[2] < b[1] * a[2]
RLe(a, b) == a[1] * b[2] <= b[1] * a[2]
RMax(a, b) == IF RLt(a, b) THEN b ELSE a
RMin(a, b) == IF RLt(b, a) THEN b ELSE a
RSign(a) == IF a[1] > 0 THEN R(1) ELSE IF a[1] < 0 THEN R(-1) ELSE R(0)

(* torch.clamp(t, lo, hi) on a scalar tensor *)
clamp(t, lo, hi) == RMin(RMax(t, lo), hi)

-----------------------------------------------------------------------------
(* Tensor primitives (matrices are sequences of rows of rationals).         *)

NRows(M) == Len(M)
NCols(M) == IF Len(M) = 0 THEN 0 ELSE Len(M[1])

(* the sequence <<Op(1), ..., Op(n)>>, built element by element *)
RECURSIVE Elements(_, _)
Elements(f, n) == IF n = 0 THEN <<>> ELSE Append(Elements(f, n - 1), f[n])

Tab(n, Op(_)) == Elements([i \in 1..n |-> Op(i)], n)

(* the matrix of r rows and c columns with entries Op(i, j) *)
Mat(r, c, Op(_, _)) == Tab(r, LAMBDA i : Tab(c, LAMBDA j : Op(i, j)))

RECURSIVE RSum(_, _)
RSum(f, n) == IF n = 0 THEN R(0) ELSE RAdd(RSum(f, n - 1), f[n])

matmul(X, Y) ==
    Mat(NRows(X), NCols(Y),
        LAMBDA i, j : RSum(Tab(NCols(X), LAMBDA k : RMul(X[i][k], Y[k][j])),
                           NCols(X)))

transpose(M) == Mat(NCols(M), NRows(M), LAMBDA j, i : M[i][j])

MAdd(X, Y) == Mat(NRows(X), NCols(X), LAMBDA i, j : RAdd(X[i][j], Y[i][j]))
MSub(X, Y) == Mat(NRows(X), NCols(X), LAMBDA i, j : RSub(X[i][j], Y[i][j]))
MScale(c, X) == Mat(NRows(X), NCols(X), LAMBDA i, j : RMul(c, X[i][j]))
MSign(X) == Mat(NRows(X), NCols(X), LAMBDA i, j : RSign(X[i][j]))

(* np.eye(n, k=k): ones on the k-th diagonal (column - row = k) *)
eye(n, k) == Mat(n, n, LAMBDA i, j : IF j - i = k THEN R(1) ELSE R(0))

(* M[:, :-1] *)
DropLastCol(M) == Mat(NRows(M), NCols(M) - 1, LAMBDA i, j : M[i][j])

(* torch.zeros(shape) *)
zeros(r, c) == Mat(r, c, LAMBDA i, j : R(0))

(* torch.cumsum(z, dim=1) *)
cumsum(Z) == Mat(NRows(Z), NCols(Z), LAMBDA i, j : RSum(Z[i], j))

IsDiagonal(M) ==
    /\ NRows(M) = NCols(M)
    /\ \A i \in 1..NRows(M) : \A j \in 1..NCols(M) : i # j => M[i][j] = R(0)

(* torch.pinverse of a diagonal matrix: reciprocal of the non-zero entries *)
pinverse(M) ==
    Mat(NRows(M), NCols(M),
        LAMBDA i, j : IF i = j /\ M[i][j] # R(0) THEN RDiv(R(1), M[i][j])
                      ELSE R(0))

RECURSIVE RMaxOf(_, _)
RMaxOf(f, n) == IF n = 1 THEN f[1] ELSE RMax(RMaxOf(f, n - 1), f[n])

(* np.linalg.norm(M, ord=2) ** 2: the squared spectral norm, for a diagonal *)
(* matrix (largest squared entry) and for a single column (sum of squares). *)
norm2_squared(M) ==
    IF NCols(M) = 1
    THEN RSum(Tab(NRows(M), LAMBDA i : RMul(M[i][1], M[i][1])), NRows(M))
    ELSE RMaxOf(Tab(NRows(M), LAMBDA i : RMul(M[i][i], M[i][i])), NRows(M))

-----------------------------------------------------------------------------
(* Python calls.  A raised exception is a result whose status names it.     *)

Ok(val) == [status |-> "ok", value |-> val]
Raise(exc) == [status |-> exc, value |-> None]

Range(f) == {f[i] : i \in DOMAIN f}
IndexOf(seq, e) == CHOOSE i \in 1..Len(seq) : seq[i] = e

(* Binding of a call with positional arguments pos and keyword arguments kw *)
(* `params` (in order),                                    *)
(* whose parameters outside DOMAIN defaults are required.  Python raises    *)
(* TypeError for too many positionals, an unexpected keyword, a parameter   *)
(* given twice, or a required parameter left unbound.                       *)
CallBinds(params, defaults, pos, kw) ==
    /\ Len(pos) <= Len(params)
    /\ DOMAIN kw \subseteq Range(params)
    /\ \A i \in 1..Len(pos) : params[i] \notin DOMAIN kw
    /\ \A i \in 1..Len(params) :
          \/ i <= Len(pos)
          \/ params[i] \in DOMAIN kw
          \/ params[i] \in DOMAIN defaults

BoundArgs(params, defaults, pos, kw) ==
    [p \in Range(params) |->
        IF IndexOf(params, p) <= Len(pos) THEN pos[IndexOf(params, p)]
        ELSE IF p \in DOMAIN kw THEN kw[p]
        ELSE defaults[p]]

-----------------------------------------------------------------------------
(* src/carpet/utils.py                                                      *)

(* check_tensor: coercion to a tensor on the device; the value is kept.     *)
check_tensor(a) == a

(* the return of v_to_u: (x - lbda * v.matmul(Psi_A.t())).matmul(inv_A);    *)
(* a None operator fails in check_tensor or in None.t()                     *)
v_to_u_primal(v, x, lbda, inv_A, Psi_A) ==
    IF inv_A = None \/ Psi_A = None THEN Raise("TensorError")
    ELSE Ok(matmul(MSub(x, MScale(lbda, matmul(v, transpose(check_tensor(Psi_A))))),
                   check_tensor(inv_A)))

(* v_to_u computing the operators as soon as one of A, D is given *)
v_to_u_either(v, x, lbda, A, D, inv_A, Psi_A) ==
    IF inv_A = None /\ Psi_A = None
    THEN IF A # None \/ D # None
         THEN IF A = None \/ D = None THEN Raise("TensorError")
              ELSE v_to_u_primal(v, x, lbda, pinverse(check_tensor(A)),
                       matmul(pinverse(check_tensor(A)), check_tensor(D)))
         ELSE Raise("ValueError")
    ELSE v_to_u_primal(v, x, lbda, inv_A, Psi_A)

(* v_to_u(v, x, lbda, A=None, D=None, inv_A=None, Psi_A=None)               *)
v_to_u(v, x, lbda, A, D, inv_A, Psi_A) ==
    IF inv_A = None /\ Psi_A = None
    THEN IF A # None /\ D # None
         THEN v_to_u_primal(v, x, lbda, pinverse(check_tensor(A)),
                  matmul(pinverse(check_tensor(A)), check_tensor(D)))
         ELSE Raise("ValueError")
    ELSE v_to_u_primal(v, x, lbda, inv_A, Psi_A)

init_vuz_params == <<"A", "D", "x", "lbda", "v0", "device", "force_numpy">>
init_vuz_defaults == [v0 |-> None, device |-> "cpu", force_numpy |-> FALSE]

(* body of init_vuz(A, D, x, lbda, v0=None, ...): returns (v0, u0, z0)      *)
init_vuz_body(A, D, x, lbda, v0) ==
    LET n_samples == NRows(x)
        n_atoms == NRows(A)
        v0_ == IF v0 = None THEN zeros(n_samples, n_atoms - 1) ELSE v0
        u0 == v_to_u(v0_, x, lbda, A, D, None, None)
    IN  IF u0.status # "ok" THEN u0
        ELSE LET uD == matmul(u0.value, D)
                 z0 == Tab(n_samples, LAMBDA i : <<u0.value[i][1]>> \o uD[i])
             IN  Ok([v |-> v0_, u |-> u0.value, z |-> z0])

(* a call of init_vuz with positionals pos and keywords kw                  *)
init_vuz(pos, kw) ==
    IF ~CallBinds(init_vuz_params, init_vuz_defaults, pos, kw)
    THEN Raise("TypeError")
    ELSE LET a == BoundArgs(init_vuz_params, init_vuz_defaults, pos, kw)
         IN  init_vuz_body(a["A"], a["D"], a["x"], a["lbda"], a["v0"])

-----------------------------------------------------------------------------
(* Collaborators of the repository that src/ does not hold (lista_base.py,  *)
(* parameters.py, lista_synthesis.py, proximity.py, proximity_tv.py),       *)
(* modelled from the specification's description of their interfaces.       *)

(* Parameter keys are paths: 'Wu' is <<"Wu">>, 'prox:layer-0:threshold' is  *)
(* <<"prox", "layer-0", "threshold">>; a key starts with 'prox:' when its   *)
(* path has more than one component and the first is "prox".                *)
Key(name) == <<name>>

(* f'layer-{layer_id}' *)
LayerKey(layer_id) == "layer-" \o ToString(layer_id)

(* dict.get(key, default) *)
Get(d, key, default) == IF key \in DOMAIN d THEN d[key] ELSE default

(* d[key] = val on a dict *)
Put(d, key, val) == [k \in DOMAIN d \cup {key} |-> IF k = key THEN val ELSE d[k]]

(* ravel_group_params: {group: {key: p}} -> {'group:key': p} *)
ravel_group_params(groups) ==
    LET keys == UNION {{<<g>> \o k : k \in DOMAIN groups[g]} : g \in DOMAIN groups}
    IN  [k \in keys |-> groups[k[1]][Tail(k)]]

(* unravel_group_params: {'group:key': p} -> {group: {key: p}} *)
unravel_group_params(flat) ==
    LET gs == {k[1] : k \in DOMAIN flat}
    IN  [g \in gs |-> [k \in {Tail(kk) : kk \in {q \in DOMAIN flat : q[1] = g}}
                          |-> flat[<<g>> \o k]]]

(* soft-thresholding kernel: sign(z) * max(|z| - lbda * step_size, 0) *)
soft_thresholding(z, lbda, step_size) ==
    LET th == RMul(lbda, step_size)
        st(a) == IF RLt(th, a) THEN RSub(a, th)
                 ELSE IF RLt(a, RNeg(th)) THEN RAdd(a, th) ELSE R(0)
    IN  Mat(NRows(z), NCols(z), LAMBDA i, j : st(z[i][j]))

pseudo_soft_th_tensor(z, lbda, step_size) == soft_thresholding(z, lbda, step_size)

(* ProxTV_l1.apply: the exact prox of lbda * TV on a row of two atoms: the  *)
(* two entries move towards each other by lbda, and meet at their mean.     *)
ProxTV_l1(u, lbda) ==
    Tab(NRows(u), LAMBDA i :
        LET d == RSub(u[i][2], u[i][1])
            mean == RDiv(RAdd(u[i][1], u[i][2]), R(2))
        IN  IF RLe(d, RMul(R(2), lbda)) /\ RLe(RNeg(RMul(R(2), lbda)), d)
            THEN <<mean, mean>>
            ELSE <<RAdd(u[i][1], RMul(lbda, RSign(d))),
                   RSub(u[i][2], RMul(lbda, RSign(d)))>>)

(* ListaLASSO(A=I_k, n_layers, learn_th=True, name, initial_parameters): a  *)
(* new nested network object; id is its identity (the number of nested      *)
(* networks the enclosing constructor had created, plus one).  Each inner   *)
(* layer holds a threshold, 1 / ||A||^2 unless initial parameters give it.  *)
ListaLASSO(id, A, n_layers, name, initial_parameters) ==
    LET ip == IF initial_parameters = None THEN <<>> ELSE initial_parameters
        init(j) == Key("threshold") :> RDiv(R(1), norm2_squared(A))
    IN  [id |-> id, name |-> name, n_layers |-> n_layers,
         parameter_groups |->
            [g \in {LayerKey(j) : j \in 0..(n_layers - 1)} |->
                LET j == CHOOSE jj \in 0..(n_layers - 1) : LayerKey(jj) = g
                IN  Get(ip, g, init(j))]]

(* prox_tv(x=u, lbda=lbda): the nested network's forward.  With A = I_k its *)
(* layers are z <- soft_th(z Wz + x Wx, lbda * threshold), Wz = 0, Wx = I.  *)
RECURSIVE ListaLASSO_layers(_, _, _, _, _)
ListaLASSO_layers(net, x, lbda, j, z) ==
    IF j >= net.n_layers THEN z
    ELSE ListaLASSO_layers(net, x, lbda, j + 1,
            soft_thresholding(x, lbda,
                net.parameter_groups[LayerKey(j)][Key("threshold")]))

ListaLASSO_forward(net, x, lbda) == ListaLASSO_layers(net, x, lbda, 0, x)

(* ListaBase.check_output_layer: defaults to n_layers, rejects more *)
check_output_layer(self, output_layer) ==
    IF output_layer = None THEN Ok(self.n_layers)
    ELSE IF output_layer[1] > self.n_layers THEN Raise("ValueError")
    ELSE Ok(output_layer[1])

-----------------------------------------------------------------------------
(* src/carpet/lista_analysis.py: construction.  An object is a record of    *)
(* its attributes; a method that mutates self returns the new self.         *)

LEARN_PROX_PER_LAYER == "per-layer"
LEARN_PROX_GLOBAL == "global"
LEARN_PROX_FALSE == "none"
ALL_LEARN_PROX == <<LEARN_PROX_FALSE, LEARN_PROX_GLOBAL, LEARN_PROX_PER_LAYER>>

(* the attributes every __init__ derives from A: n_atoms, A, D, A_, inv_A_  *)
OperatorAttrs(A) ==
    LET n_atoms == NRows(A)
    IN  [A |-> A,
         I_k |-> eye(n_atoms, 0),
         D |-> DropLastCol(MSub(eye(n_atoms, -1), eye(n_atoms, 0))),
         A_ |-> check_tensor(A),
         inv_A_ |-> pinverse(check_tensor(A)),
         allocs |-> 0,
         notices |-> {}]

(* ListaTV._initialize_prox_tv_per_layer *)
ListaTV_initialize_prox_tv_per_layer(self, layer_id, layer_params, initial_parameters_prox) ==
    LET layer_prox_tv == ListaLASSO(self.allocs + 1, self.I_k, self.n_inner_layers,
                                    <<"Prox-TV-Lista", layer_id>>,
                                    initial_parameters_prox)
        flat == ravel_group_params(layer_prox_tv.parameter_groups)
    IN  [self |-> [self EXCEPT !.allocs = @ + 1,
                               !.prox_tv = Put(@, layer_id, layer_prox_tv)],
         layer_params |->
            [k \in DOMAIN layer_params \cup {<<"prox">> \o q : q \in DOMAIN flat} |->
                IF Len(k) > 1 /\ k[1] = "prox" /\ Tail(k) \in DOMAIN flat
                THEN flat[Tail(k)] ELSE layer_params[k]]]

(* ListaTV.get_initial_layer_parameters *)
ListaTV_get_initial_layer_parameters(self, layer_id) ==
    LET base == (Key("Wu") :> MSub(self.I_k,
                                   MScale(RDiv(R(1), self.l_),
                                          matmul(self.A, transpose(self.A)))))
                @@ (Key("Wx") :> MScale(RDiv(R(1), self.l_), transpose(self.A)))
        with_th == IF self.learn_th
                   THEN base @@ (Key("threshold") :> RDiv(R(1), self.l_))
                   ELSE base
    IN  IF self.learn_prox = LEARN_PROX_PER_LAYER
        THEN ListaTV_initialize_prox_tv_per_layer(self, layer_id, with_th, None)
        ELSE [self |-> self, layer_params |-> with_th]

(* the per-layer branch of ListaTV.get_global_parameters: layers 0..k-1 done *)
RECURSIVE ListaTV_complete_per_layer(_, _)
ListaTV_complete_per_layer(self, k) ==
    IF k = 0 THEN self
    ELSE LET s == ListaTV_complete_per_layer(self, k - 1)
             layer_id == k - 1
         IN  IF layer_id \in DOMAIN s.prox_tv THEN s
             ELSE LET layer_params == s.parameter_groups[LayerKey(layer_id)]
                      prox_keys == {q \in DOMAIN layer_params :
                                        Len(q) > 1 /\ q[1] = "prox"}
                      initial_parameters_prox == unravel_group_params(
                          [q \in {Tail(kk) : kk \in prox_keys} |->
                              layer_params[<<"prox">> \o q]])
                      r == ListaTV_initialize_prox_tv_per_layer(
                               s, layer_id, layer_params, initial_parameters_prox)
                  IN  [r.self EXCEPT !.parameter_groups =
                           Put(@, LayerKey(layer_id), r.layer_params)]

(* the first branch of ListaTV.get_global_parameters: one nested network,   *)
(* registered as the group 'prox' when learn_prox is 'global'               *)
ListaTV_shared_prox(self, initial_parameters) ==
    LET initial_parameters_prox ==
            unravel_group_params(Get(initial_parameters, "prox", <<>>))
        prox_tv == ListaLASSO(self.allocs + 1, self.I_k, self.n_inner_layers,
                              <<"Prox-TV-Lista">>, initial_parameters_prox)
        s == [prox_tv |-> prox_tv] @@ [self EXCEPT !.allocs = @ + 1]
    IN  IF self.learn_prox = LEARN_PROX_GLOBAL
        THEN Ok([s EXCEPT
                   !.parameter_groups =
                       Put(@, "prox", ravel_group_params(prox_tv.parameter_groups)),
                   !.force_learn_groups = Append(@, "prox")])
        ELSE Ok(s)

(* get_global_parameters whose first branch takes 'global' alone *)
ListaTV_get_global_parameters_global_only(self, initial_parameters) ==
    IF self.learn_prox \in {LEARN_PROX_GLOBAL}
    THEN ListaTV_shared_prox(self, initial_parameters)
    ELSE IF self.learn_prox = LEARN_PROX_PER_LAYER
    THEN Ok(ListaTV_complete_per_layer(self, self.n_layers))
    ELSE Raise("NotImplementedError")

(* ListaTV.get_global_parameters *)
ListaTV_get_global_parameters(self, initial_parameters) ==
    IF self.learn_prox \in {LEARN_PROX_GLOBAL, LEARN_PROX_FALSE}
    THEN ListaTV_shared_prox(self, initial_parameters)
    ELSE IF self.learn_prox = LEARN_PROX_PER_LAYER
    THEN Ok(ListaTV_complete_per_layer(self, self.n_layers))
    ELSE Raise("NotImplementedError")

(* get_initial_layer_parameters of LpgdTautString *)
LpgdTautString_get_initial_layer_parameters(self, layer_id) ==
    LET base == (Key("Wu") :> MSub(self.I_k,
                                   MScale(RDiv(R(1), self.l_),
                                          matmul(self.A, transpose(self.A)))))
                @@ (Key("Wx") :> MScale(RDiv(R(1), self.l_), transpose(self.A)))
    IN  [self |-> self,
         layer_params |-> IF self.learn_th
                          THEN base @@ (Key("threshold") :> RDiv(R(1), self.l_))
                          ELSE base]

(* get_initial_layer_parameters of CoupledCondatVu *)
CoupledCondatVu_get_initial_layer_parameters(self, layer_id) ==
    LET base == Key("W_coupled") :> self.D
    IN  [self |-> self,
         layer_params |-> IF self.learn_th
                          THEN base @@ (Key("threshold") :> R(1))
                          ELSE base]

(* get_initial_layer_parameters of StepCondatVu: dict(sigma=.5) *)
StepCondatVu_get_initial_layer_parameters(self, layer_id) ==
    [self |-> self, layer_params |-> Key("sigma") :> Frac(1, 2)]

(* init_step_size = 1e-10, as the decimal exponent of the step size *)
init_step_size_exp == -10

(* 10^k as the scalar <<1, 1, k>> (num, den, decimal exponent): 10^10 is    *)
(* beyond 32-bit integers, so this scalar is stored and compared but       *)
(* never entered into arithmetic.                                           *)
Pow10(k) == <<1, 1, k>>
IsRational(a) == Len(a) = Len(R(0))

(* get_initial_layer_parameters of StepSubGradTV *)
StepSubGradTV_get_initial_layer_parameters(self, layer_id) ==
    [self |-> self, layer_params |-> Key("step_size") :> Pow10(init_step_size_exp)]

(* dispatch of the methods the subclasses override *)
get_initial_layer_parameters(self, layer_id) ==
    CASE self.variant = "ListaTV" -> ListaTV_get_initial_layer_parameters(self, layer_id)
      [] self.variant = "LpgdTautString" ->
            LpgdTautString_get_initial_layer_parameters(self, layer_id)
      [] self.variant = "CoupledCondatVu" ->
            CoupledCondatVu_get_initial_layer_parameters(self, layer_id)
      [] self.variant = "StepCondatVu" ->
            StepCondatVu_get_initial_layer_parameters(self, layer_id)
      [] self.variant = "StepSubGradTV" ->
            StepSubGradTV_get_initial_layer_parameters(self, layer_id)

get_global_parameters(self, initial_parameters) ==
    IF self.variant = "ListaTV"
    THEN ListaTV_get_global_parameters(self, initial_parameters)
    ELSE Ok(self)

(* ListaBase: the layer groups 0..k-1 are registered, from the initial      *)
(* parameters when they hold the group and from the variant otherwise.      *)
RECURSIVE ListaBase_init_layers(_, _, _)
ListaBase_init_layers(self, initial_parameters, k) ==
    IF k = 0 THEN self
    ELSE LET s == ListaBase_init_layers(self, initial_parameters, k - 1)
             layer_id == k - 1
             g == LayerKey(layer_id)
         IN  IF g \in DOMAIN initial_parameters
             THEN [s EXCEPT !.parameter_groups = Put(@, g, initial_parameters[g])]
             ELSE LET r == get_initial_layer_parameters(s, layer_id)
                  IN  [r.self EXCEPT !.parameter_groups = Put(@, g, r.layer_params)]

(* ListaBase.__init__(n_layers, learn_th, ..., initial_parameters) *)
ListaBase__init__(self, n_layers, learn_th, initial_parameters) ==
    LET ip == IF initial_parameters = None THEN <<>> ELSE initial_parameters
        s0 == [n_layers |-> n_layers, learn_th |-> learn_th,
               parameter_groups |-> <<>>, force_learn_groups |-> <<>>] @@ self
    IN  get_global_parameters(ListaBase_init_layers(s0, ip, n_layers), ip)

(* ListaTV.__init__ *)
ListaTV__init__(A, n_layers, initial_parameters, learn_th, learn_prox, n_inner_layers) ==
    LET s0 == [variant |-> "ListaTV", learn_prox |-> learn_prox,
               use_moreau |-> FALSE, n_inner_layers |-> n_inner_layers,
               device |-> "cpu"]
        s1 == IF learn_prox = LEARN_PROX_PER_LAYER
              THEN [prox_tv |-> <<>>] @@ s0 ELSE s0
        s2 == s1 @@ OperatorAttrs(A) @@ [l_ |-> norm2_squared(A)]
    IN  ListaBase__init__(s2, n_layers, learn_th, initial_parameters)

CudaDevices == {"cuda", "cuda:0"}

(* LpgdTautString.__init__ *)
LpgdTautString__init__(A, n_layers, learn_th, initial_parameters, device) ==
    LET cuda == device \in CudaDevices           \* 'cuda' in device
        s0 == [variant |-> "LpgdTautString", use_moreau |-> TRUE,
               device |-> IF cuda THEN "cpu" ELSE device]
        s1 == s0 @@ OperatorAttrs(A) @@ [l_ |-> norm2_squared(A)]
        s2 == IF cuda THEN [s1 EXCEPT !.notices = @ \cup {"warn:cuda"}] ELSE s1
    IN  ListaBase__init__(s2, n_layers, learn_th, initial_parameters)

(* CoupledCondatVu.__init__ *)
CoupledCondatVu__init__(A, n_layers, learn_th, initial_parameters) ==
    LET s0 == [variant |-> "CoupledCondatVu", use_moreau |-> FALSE,
               device |-> "cpu"] @@ OperatorAttrs(A)
        l_A == norm2_squared(s0.A)
        l_D == norm2_squared(s0.D)
        rho == R(1)
        sigma == Frac(1, 2)
        tau == RDiv(R(1), RAdd(RDiv(l_A, R(2)), RMul(sigma, RMul(l_D, l_D))))
        s1 == s0 @@ [D_ |-> check_tensor(s0.D), l_A |-> l_A, l_D |-> l_D,
                     rho |-> rho, sigma |-> sigma, tau |-> tau]
    IN  ListaBase__init__(s1, n_layers, learn_th, initial_parameters)

(* StepCondatVu.__init__, up to the call of super().__init__ *)
StepCondatVu_attrs(A, learn_th) ==
    LET s0 == [variant |-> "StepCondatVu", use_moreau |-> FALSE,
               device |-> "cpu"] @@ OperatorAttrs(A)
        s1 == s0 @@ [D_ |-> check_tensor(s0.D), l_A |-> norm2_squared(s0.A),
                     l_D |-> norm2_squared(s0.D), rho |-> R(1)]
    IN  IF learn_th THEN [s1 EXCEPT !.notices = @ \cup {"print:learn_th"}]
        ELSE s1

(* __init__ handing the learn_th it was given to super().__init__ *)
StepCondatVu__init__passing_learn_th(A, n_layers, learn_th, initial_parameters) ==
    ListaBase__init__(StepCondatVu_attrs(A, learn_th), n_layers, learn_th,
                      initial_parameters)

(* StepCondatVu.__init__ *)
StepCondatVu__init__(A, n_layers, learn_th, initial_parameters) ==
    ListaBase__init__(StepCondatVu_attrs(A, learn_th), n_layers, FALSE,
                      initial_parameters)

(* StepSubGradTV.__init__ *)
StepSubGradTV__init__(A, n_layers, learn_th, initial_parameters) ==
    LET s0 == [variant |-> "StepSubGradTV", use_moreau |-> FALSE,
               device |-> "cpu"] @@ OperatorAttrs(A)
        s1 == s0 @@ [D_ |-> check_tensor(s0.D)]
        s2 == IF learn_th THEN [s1 EXCEPT !.notices = @ \cup {"print:learn_th"}]
              ELSE s1
    IN  ListaBase__init__(s2, n_layers, FALSE, initial_parameters)

-----------------------------------------------------------------------------
(* src/carpet/lista_analysis.py: the forward recurrences.  `loc` holds the  *)
(* local variables of forward (u, v, u_old, v_old, mul_lbda) and a record   *)
(* of what the loop did: the layer ids run, the parameter groups read, the  *)
(* nested networks invoked and the sigma and tau each layer used.           *)

Locals(u, v, u_old, v_old, mul_lbda) ==
    [u |-> u, v |-> v, u_old |-> u_old, v_old |-> v_old, mul_lbda |-> mul_lbda,
     ran |-> <<>>, read |-> <<>>, prox_calls |-> <<>>, sigma_used |-> <<>>,
     tau_used |-> <<>>]

Ran(loc, layer_id) ==
    [loc EXCEPT !.ran = Append(@, layer_id), !.read = Append(@, LayerKey(layer_id))]

(* loop body of ListaTV.forward, once prox_tv is chosen *)
ListaTV_iteration(self, x, lbda, layer_id, loc, prox_tv) ==
    LET layer_params == self.parameter_groups[LayerKey(layer_id)]
        Wx == layer_params[Key("Wx")]
        Wu == layer_params[Key("Wu")]
        mul_lbda == check_tensor(Get(layer_params, Key("threshold"),
                                     RDiv(R(1), self.l_)))
        u1 == MAdd(matmul(loc.u, Wu), matmul(x, Wx))
        z == ListaLASSO_forward(prox_tv, u1, RMul(lbda, mul_lbda))
        u2 == cumsum(z)
    IN  [self |-> self,
         loc |-> [Ran(loc, layer_id) EXCEPT !.u = u2,
                      !.prox_calls = Append(@, prox_tv.id)]]

(* loop body taking the nested network of the first layer for every layer *)
ListaTV_layer_first_prox(self, x, lbda, layer_id, loc) ==
    ListaTV_iteration(self, x, lbda, layer_id, loc,
        IF self.learn_prox = LEARN_PROX_PER_LAYER
        THEN self.prox_tv[0] ELSE self.prox_tv)

(* loop body of ListaTV.forward *)
ListaTV_layer(self, x, lbda, layer_id, loc) ==
    ListaTV_iteration(self, x, lbda, layer_id, loc,
        IF self.learn_prox = LEARN_PROX_PER_LAYER
        THEN self.prox_tv[layer_id] ELSE self.prox_tv)

(* loop body of LpgdTautString.forward *)
LpgdTautString_layer(self, x, lbda, layer_id, loc) ==
    LET layer_params == self.parameter_groups[LayerKey(layer_id)]
        Wx == layer_params[Key("Wx")]
        Wu == layer_params[Key("Wu")]
        mul_lbda == IF self.learn_th THEN layer_params[Key("threshold")]
                    ELSE loc.mul_lbda
        u1 == MAdd(matmul(loc.u, Wu), matmul(x, Wx))
        u2 == ProxTV_l1(u1, RMul(lbda, mul_lbda))
    IN  [self |-> self,
         loc |-> [Ran(loc, layer_id) EXCEPT !.u = u2, !.mul_lbda = mul_lbda]]

(* primal descent, dual ascent and relaxed update of both Condat-Vu loops *)
CondatVu_update(self, x, lbda_th, W, sigma, tau, rho, loc) ==
    LET u_old == loc.u_old
        v_old == loc.v_old
        u_new == MAdd(u_old,
                    MSub(MScale(RNeg(tau),
                                matmul(MSub(matmul(u_old, self.A_), x),
                                       transpose(self.A_))),
                         MScale(tau, matmul(v_old, transpose(W)))))
        v_ == MAdd(v_old, MScale(sigma,
                    matmul(MSub(MScale(R(2), u_new), u_old), W)))
        v_new == MSub(v_, MScale(sigma,
                    pseudo_soft_th_tensor(MScale(RDiv(R(1), sigma), v_), lbda_th,
                                          RDiv(R(1), sigma))))
        u == MAdd(MScale(rho, u_new), MScale(RSub(R(1), rho), u_old))
        v == MAdd(MScale(rho, v_new), MScale(RSub(R(1), rho), v_old))
    IN  [loc EXCEPT !.u = u, !.v = v, !.u_old = u, !.v_old = v]

(* loop body of CoupledCondatVu.forward *)
CoupledCondatVu_layer(self, x, lbda, layer_id, loc) ==
    LET layer_params == self.parameter_groups[LayerKey(layer_id)]
        W == layer_params[Key("W_coupled")]
        mul_lbda == check_tensor(Get(layer_params, Key("threshold"), R(1)))
        sigma == self.sigma
        tau == self.tau
        rho == self.rho
    IN  [self |-> self,
         loc |-> [CondatVu_update(self, x, RMul(lbda, mul_lbda), W, sigma, tau,
                                  rho, Ran(loc, layer_id))
                     EXCEPT !.sigma_used = Append(@, sigma),
                            !.tau_used = Append(@, tau)]]

(* loop body of StepCondatVu.forward, from the sigma it uses *)
StepCondatVu_iteration(self, x, lbda, layer_id, loc, sigma) ==
    LET tau == RDiv(R(1), RAdd(RDiv(self.l_A, R(2)),
                               RMul(sigma, RMul(self.l_D, self.l_D))))
        rho == self.rho
    IN  [self |-> self,
         loc |-> [CondatVu_update(self, x, lbda, self.D_, sigma, tau, rho,
                                  Ran(loc, layer_id))
                     EXCEPT !.sigma_used = Append(@, sigma),
                            !.tau_used = Append(@, tau)]]

(* loop body using the stored sigma as it is *)
StepCondatVu_layer_unclamped(self, x, lbda, layer_id, loc) ==
    StepCondatVu_iteration(self, x, lbda, layer_id, loc,
        self.parameter_groups[LayerKey(layer_id)][Key("sigma")])

(* loop body clamping the stored tensor in place (sigma.clamp_) *)
StepCondatVu_layer_in_place(self, x, lbda, layer_id, loc) ==
    StepCondatVu_iteration(
        [self EXCEPT !.parameter_groups[LayerKey(layer_id)][Key("sigma")] =
                         clamp(@, Frac(1, 2), R(2))],
        x, lbda, layer_id, loc,
        clamp(self.parameter_groups[LayerKey(layer_id)][Key("sigma")],
              Frac(1, 2), R(2)))

(* loop body of StepCondatVu.forward *)
StepCondatVu_layer(self, x, lbda, layer_id, loc) ==
    StepCondatVu_iteration(self, x, lbda, layer_id, loc,
        clamp(self.parameter_groups[LayerKey(layer_id)][Key("sigma")],
              Frac(1, 2), R(2)))

(* loop body of StepSubGradTV.forward *)
StepSubGradTV_layer(self, x, lbda, layer_id, loc) ==
    LET layer_params == self.parameter_groups[LayerKey(layer_id)]
        step_size == layer_params[Key("step_size")]
        residual == matmul(MSub(matmul(loc.u, self.A_), x), transpose(self.A_))
        reg == matmul(MSign(matmul(loc.u, self.D_)), transpose(self.D_))
        grad == MAdd(residual, MScale(lbda, reg))
        u == MSub(loc.u, MScale(step_size, grad))
    IN  [self |-> self, loc |-> [Ran(loc, layer_id) EXCEPT !.u = u]]

(* for layer_id in range(output_layer): the loop of each forward, from     *)
(* layer_id on; st is (self, locals).                                       *)
RECURSIVE ListaTV_loop(_, _, _, _, _)
ListaTV_loop(st, x, lbda, layer_id, output_layer) ==
    IF layer_id >= output_layer THEN st
    ELSE ListaTV_loop(ListaTV_layer(st.self, x, lbda, layer_id, st.loc),
                      x, lbda, layer_id + 1, output_layer)

RECURSIVE LpgdTautString_loop(_, _, _, _, _)
LpgdTautString_loop(st, x, lbda, layer_id, output_layer) ==
    IF layer_id >= output_layer THEN st
    ELSE LpgdTautString_loop(
             LpgdTautString_layer(st.self, x, lbda, layer_id, st.loc),
             x, lbda, layer_id + 1, output_layer)

RECURSIVE CoupledCondatVu_loop(_, _, _, _, _)
CoupledCondatVu_loop(st, x, lbda, layer_id, output_layer) ==
    IF layer_id >= output_layer THEN st
    ELSE CoupledCondatVu_loop(
             CoupledCondatVu_layer(st.self, x, lbda, layer_id, st.loc),
             x, lbda, layer_id + 1, output_layer)

RECURSIVE StepCondatVu_loop(_, _, _, _, _)
StepCondatVu_loop(st, x, lbda, layer_id, output_layer) ==
    IF layer_id >= output_layer THEN st
    ELSE StepCondatVu_loop(
             StepCondatVu_layer(st.self, x, lbda, layer_id, st.loc),
             x, lbda, layer_id + 1, output_layer)

RECURSIVE StepSubGradTV_loop(_, _, _, _, _)
StepSubGradTV_loop(st, x, lbda, layer_id, output_layer) ==
    IF layer_id >= output_layer THEN st
    ELSE StepSubGradTV_loop(
             StepSubGradTV_layer(st.self, x, lbda, layer_id, st.loc),
             x, lbda, layer_id + 1, output_layer)

(* The result of a forward call: the object after it, what it returned or   *)
(* raised, and the locals at that point (None when no loop was entered).    *)
Raised(self, exc) == [self |-> self, ret |-> exc, loc |-> None]
Returned(st) == [self |-> st.self, ret |-> Ok(st.loc.u), loc |-> st.loc]

(* the locals each forward holds when it enters its loop *)
ListaTV_locals(self, init) == Locals(init.u, None, None, None, None)
LpgdTautString_locals(self, init) ==
    Locals(init.u, None, None, None, check_tensor(RDiv(R(1), self.l_)))
CoupledCondatVu_locals(self, init) == Locals(init.u, init.v, init.u, init.v, None)
StepCondatVu_locals(self, init, init_old) ==
    Locals(init.u, init.v, init_old.u, init_old.v, None)
StepSubGradTV_locals(self, init) == Locals(init.u, None, None, None, None)

(* ListaTV.forward, after check_output_layer (ol) and init_vuz (init) *)
ListaTV_forward_from(self, x, lbda, ol, init) ==
    IF ol.status # "ok" THEN Raised(self, ol)
    ELSE IF init.status # "ok" THEN Raised(self, init)
    ELSE Returned(ListaTV_loop([self |-> self,
                                loc |-> ListaTV_locals(self, init.value)],
                               x, lbda, 0, ol.value))

(* ListaTV.forward *)
ListaTV_forward(self, x, lbda, output_layer) ==
    ListaTV_forward_from(self, x, lbda, check_output_layer(self, output_layer),
        init_vuz(<<self.A, self.D, x>>,
                 [inv_A |-> self.inv_A_, device |-> self.device]))

LpgdTautString_forward_from(self, x, lbda, ol, init) ==
    IF ol.status # "ok" THEN Raised(self, ol)
    ELSE IF init.status # "ok" THEN Raised(self, init)
    ELSE Returned(LpgdTautString_loop(
             [self |-> self, loc |-> LpgdTautString_locals(self, init.value)],
             x, lbda, 0, ol.value))

(* LpgdTautString.forward *)
LpgdTautString_forward(self, x, lbda, output_layer) ==
    LpgdTautString_forward_from(self, x, lbda,
        check_output_layer(self, output_layer),
        init_vuz(<<self.A, self.D, x>>,
                 [inv_A |-> self.inv_A_, device |-> self.device]))

CoupledCondatVu_forward_from(self, x, lbda, ol, init) ==
    IF ol.status # "ok" THEN Raised(self, ol)
    ELSE IF init.status # "ok" THEN Raised(self, init)
    ELSE Returned(CoupledCondatVu_loop(
             [self |-> self, loc |-> CoupledCondatVu_locals(self, init.value)],
             x, lbda, 0, ol.value))

(* CoupledCondatVu.forward *)
CoupledCondatVu_forward(self, x, lbda, output_layer) ==
    CoupledCondatVu_forward_from(self, x, lbda,
        check_output_layer(self, output_layer),
        init_vuz(<<self.A, self.D, x>>,
                 [inv_A |-> self.inv_A_, device |-> self.device]))

StepCondatVu_forward_from(self, x, lbda, ol, init, init_old) ==
    IF ol.status # "ok" THEN Raised(self, ol)
    ELSE IF init.status # "ok" THEN Raised(self, init)
    ELSE IF init_old.status # "ok" THEN Raised(self, init_old)
    ELSE Returned(StepCondatVu_loop(
             [self |-> self,
              loc |-> StepCondatVu_locals(self, init.value, init_old.value)],
             x, lbda, 0, ol.value))

(* StepCondatVu.forward *)
StepCondatVu_forward(self, x, lbda, output_layer) ==
    StepCondatVu_forward_from(self, x, lbda,
        check_output_layer(self, output_layer),
        init_vuz(<<self.A, self.D, x>>,
                 [inv_A |-> self.inv_A_, device |-> self.device]),
        init_vuz(<<self.A, self.D, x>>, [device |-> self.device]))

StepSubGradTV_forward_from(self, x, lbda, ol, init) ==
    IF ol.status # "ok" THEN Raised(self, ol)
    ELSE IF init.status # "ok" THEN Raised(self, init)
    ELSE Returned(StepSubGradTV_loop(
             [self |-> self, loc |-> StepSubGradTV_locals(self, init.value)],
             x, lbda, 0, ol.value))

(* StepSubGradTV.forward *)
StepSubGradTV_forward(self, x, lbda, output_layer) ==
    StepSubGradTV_forward_from(self, x, lbda,
        check_output_layer(self, output_layer),
        init_vuz(<<self.A, self.D, x>>, [device |-> self.device]))

-----------------------------------------------------------------------------
(* Bounds and input sets.                                                   *)

MaxLayers == 2
MaxInnerLayers == 1

Variants == {"ListaTV", "LpgdTautString", "CoupledCondatVu", "StepCondatVu",
             "StepSubGradTV"}

(* mixing operators: diagonal, two atoms *)
AValues == { << <<R(1), R(0)>>, <<R(0), R(1)>> >>,
             << <<R(2), R(0)>>, <<R(0), R(1)>> >> }
(* observations: one sample *)
XValues == { << <<R(3), R(1)>> >>, << <<R(0), R(2)>> >> }
LbdaValues == {Frac(1, 2), R(1)}
LearnProxValues == {LEARN_PROX_FALSE, LEARN_PROX_GLOBAL, LEARN_PROX_PER_LAYER,
                    "layerwise"}
Devices == {"cpu", "cuda"}
OutputLayers == {None} \cup {<<k>> : k \in 0..(MaxLayers + 1)}
Profiles == {"a", "b"}

(* pre-trained parameters of one layer, as initial_parameters may hold them *)
Trained(variant, A, layer_id, p) ==
    LET half == MScale(Frac(1, 2), eye(NRows(A), 0))
        th == Key("threshold") :> Frac(1, layer_id + 2)
        D == DropLastCol(MSub(eye(NRows(A), -1), eye(NRows(A), 0)))
    IN  CASE variant = "ListaTV" ->
                IF p = "a"
                THEN (Key("Wu") :> half) @@ (Key("Wx") :> half) @@ th
                     @@ (<<"prox", LayerKey(0), "threshold">> :> Frac(1, 3))
                ELSE (Key("Wu") :> half) @@ (Key("Wx") :> eye(NRows(A), 0)) @@ th
          [] variant = "LpgdTautString" ->
                (Key("Wu") :> half) @@ th
                @@ (Key("Wx") :> IF p = "a" THEN half ELSE eye(NRows(A), 0))
          [] variant = "CoupledCondatVu" ->
                (Key("W_coupled") :> IF p = "a" THEN MScale(Frac(1, 2), D) ELSE D)
                @@ th
          [] variant = "StepCondatVu" ->
                Key("sigma") :> IF p = "b" THEN Frac(3, 2)
                                ELSE <<R(10), Frac(1, 4), R(1)>>[(layer_id % 3) + 1]
          [] variant = "StepSubGradTV" ->
                Key("step_size") :> IF p = "a" THEN R(0) ELSE Frac(1, layer_id + 2)

InitialParameters(variant, A, n_layers) ==
    LET all == {LayerKey(i) : i \in 0..(n_layers - 1)}
        layer_of(g) == CHOOSE i \in 0..(n_layers - 1) : LayerKey(i) = g
        prox == "prox" :> (<<LayerKey(0), "threshold">> :> Frac(1, 4))
        given(G, p) == [g \in G |-> Trained(variant, A, layer_of(g), p)]
    IN  {None}
        \cup {given(G, p) : G \in {all, all \cap {LayerKey(0)}} \ {{}}, p \in Profiles}
        \cup {given(all, "b") @@ prox : v \in {variant} \cap {"ListaTV"}}

-----------------------------------------------------------------------------
(* The state: the constructor call made and its outcome, the network it     *)
(* built, the last evaluation observed, and the last call of v_to_u.        *)

VARIABLES ctor, built, net, ev, util

vars == <<ctor, built, net, ev, util>>

NoEval == [kind |-> "none", x |-> None, lbda |-> None, output_layer |-> None,
           status |-> "none", value |-> None, loc |-> None]
NoUtil == [args |-> None, status |-> "none", value |-> None]

Init ==
    /\ ctor = [variant |-> "none"]
    /\ built = "none"
    /\ net = None
    /\ ev = NoEval
    /\ util = NoUtil

Constructed(args, r) ==
    /\ built = "none"
    /\ ctor' = args
    /\ built' = r.status
    /\ net' = r.value
    /\ UNCHANGED <<ev, util>>

ConstructListaTV ==
    \E A \in AValues, n_layers \in 0..MaxLayers, learn_th \in BOOLEAN,
       learn_prox \in LearnProxValues, n_inner_layers \in 0..MaxInnerLayers :
      \E ip \in InitialParameters("ListaTV", A, n_layers) :
        Constructed([variant |-> "ListaTV", n_layers |-> n_layers,
                     learn_th |-> learn_th, learn_prox |-> learn_prox,
                     initial_parameters |-> ip, A |-> A],
                    ListaTV__init__(A, n_layers, ip, learn_th, learn_prox,
                                    n_inner_layers))

ConstructLpgdTautString ==
    \E A \in AValues, n_layers \in 0..MaxLayers, learn_th \in BOOLEAN,
       device \in Devices :
      \E ip \in InitialParameters("LpgdTautString", A, n_layers) :
        Constructed([variant |-> "LpgdTautString", n_layers |-> n_layers,
                     learn_th |-> learn_th, learn_prox |-> LEARN_PROX_FALSE,
                     initial_parameters |-> ip, A |-> A],
                    LpgdTautString__init__(A, n_layers, learn_th, ip, device))

ConstructCoupledCondatVu ==
    \E A \in AValues, n_layers \in 0..MaxLayers, learn_th \in BOOLEAN :
      \E ip \in InitialParameters("CoupledCondatVu", A, n_layers) :
        Constructed([variant |-> "CoupledCondatVu", n_layers |-> n_layers,
                     learn_th |-> learn_th, learn_prox |-> LEARN_PROX_FALSE,
                     initial_parameters |-> ip, A |-> A],
                    CoupledCondatVu__init__(A, n_layers, learn_th, ip))

ConstructStepCondatVu ==
    \E A \in AValues, n_layers \in 0..MaxLayers, learn_th \in BOOLEAN :
      \E ip \in InitialParameters("StepCondatVu", A, n_layers) :
        Constructed([variant |-> "StepCondatVu", n_layers |-> n_layers,
                     learn_th |-> learn_th, learn_prox |-> LEARN_PROX_FALSE,
                     initial_parameters |-> ip, A |-> A],
                    StepCondatVu__init__(A, n_layers, learn_th, ip))

ConstructStepSubGradTV ==
    \E A \in AValues, n_layers \in 0..MaxLayers, learn_th \in BOOLEAN :
      \E ip \in InitialParameters("StepSubGradTV", A, n_layers) :
        Constructed([variant |-> "StepSubGradTV", n_layers |-> n_layers,
                     learn_th |-> learn_th, learn_prox |-> LEARN_PROX_FALSE,
                     initial_parameters |-> ip, A |-> A],
                    StepSubGradTV__init__(A, n_layers, learn_th, ip))

(* net.forward(x, lbda, output_layer), from the call to its return or raise *)
Evaluated(x, lbda, output_layer, r) ==
    /\ net' = r.self
    /\ ev' = [kind |-> "forward", x |-> x, lbda |-> lbda,
              output_layer |-> output_layer, status |-> r.ret.status,
              value |-> r.ret.value, loc |-> r.loc]
    /\ UNCHANGED <<ctor, built, util>>

IsA(variant) == built = "ok" /\ net.variant = variant

ForwardListaTV ==
    /\ IsA("ListaTV")
    /\ \E x \in XValues, lbda \in LbdaValues, output_layer \in OutputLayers :
         \E r \in {ListaTV_forward(net, x, lbda, output_layer)} :
           Evaluated(x, lbda, output_layer, r)

ForwardLpgdTautString ==
    /\ IsA("LpgdTautString")
    /\ \E x \in XValues, lbda \in LbdaValues, output_layer \in OutputLayers :
         \E r \in {LpgdTautString_forward(net, x, lbda, output_layer)} :
           Evaluated(x, lbda, output_layer, r)

ForwardCoupledCondatVu ==
    /\ IsA("CoupledCondatVu")
    /\ \E x \in XValues, lbda \in LbdaValues, output_layer \in OutputLayers :
         \E r \in {CoupledCondatVu_forward(net, x, lbda, output_layer)} :
           Evaluated(x, lbda, output_layer, r)

ForwardStepCondatVu ==
    /\ IsA("StepCondatVu")
    /\ \E x \in XValues, lbda \in LbdaValues, output_layer \in OutputLayers :
         \E r \in {StepCondatVu_forward(net, x, lbda, output_layer)} :
           Evaluated(x, lbda, output_layer, r)

ForwardStepSubGradTV ==
    /\ IsA("StepSubGradTV")
    /\ \E x \in XValues, lbda \in LbdaValues, output_layer \in OutputLayers :
         \E r \in {StepSubGradTV_forward(net, x, lbda, output_layer)} :
           Evaluated(x, lbda, output_layer, r)

Next ==
    \/ ConstructListaTV
    \/ ConstructLpgdTautString
    \/ ConstructCoupledCondatVu
    \/ ConstructStepCondatVu
    \/ ConstructStepSubGradTV
    \/ ForwardListaTV
    \/ ForwardLpgdTautString
    \/ ForwardCoupledCondatVu
    \/ ForwardStepCondatVu
    \/ ForwardStepSubGradTV

Spec == Init /\ [][Next]_vars

-----------------------------------------------------------------------------
(* The recurrences layer by layer.  LayerSpec adds, to the calls of Spec,   *)
(* the evaluation of a network one loop body at a time, from the (v, u) of  *)
(* init_vuz called with the signature it declares (A, D, x, lbda): the      *)
(* loops as written, which the forward calls of Spec never enter.           *)

InitialLocals(self, init, init_old) ==
    CASE self.variant = "ListaTV" -> ListaTV_locals(self, init)
      [] self.variant = "LpgdTautString" -> LpgdTautString_locals(self, init)
      [] self.variant = "CoupledCondatVu" -> CoupledCondatVu_locals(self, init)
      [] self.variant = "StepCondatVu" -> StepCondatVu_locals(self, init, init_old)
      [] self.variant = "StepSubGradTV" -> StepSubGradTV_locals(self, init)

Started(x, lbda, init) ==
    /\ init.status = "ok"
    /\ ev' = [kind |-> "recurrence", x |-> x, lbda |-> lbda,
              output_layer |-> None, status |-> "running",
              value |-> init.value.u,
              loc |-> InitialLocals(net, init.value, init.value)]
    /\ UNCHANGED <<ctor, built, net, util>>

Start ==
    /\ built = "ok"
    /\ \E x \in XValues, lbda \in LbdaValues :
         \E init \in {init_vuz(<<net.A, net.D, x, lbda>>,
                                [device |-> net.device])} :
           Started(x, lbda, init)

Running(variant) ==
    /\ IsA(variant)
    /\ ev.kind = "recurrence"
    /\ Len(ev.loc.ran) < net.n_layers

Stepped(r) ==
    /\ net' = r.self
    /\ ev' = [ev EXCEPT !.loc = r.loc, !.value = r.loc.u]
    /\ UNCHANGED <<ctor, built, util>>

StepListaTV ==
    /\ Running("ListaTV")
    /\ \E r \in {ListaTV_layer(net, ev.x, ev.lbda, Len(ev.loc.ran), ev.loc)} :
         Stepped(r)

StepLpgdTautString ==
    /\ Running("LpgdTautString")
    /\ \E r \in {LpgdTautString_layer(net, ev.x, ev.lbda, Len(ev.loc.ran), ev.loc)} :
         Stepped(r)

StepCoupledCondatVu ==
    /\ Running("CoupledCondatVu")
    /\ \E r \in {CoupledCondatVu_layer(net, ev.x, ev.lbda, Len(ev.loc.ran), ev.loc)} :
         Stepped(r)

StepStepCondatVu ==
    /\ Running("StepCondatVu")
    /\ \E r \in {StepCondatVu_layer(net, ev.x, ev.lbda, Len(ev.loc.ran), ev.loc)} :
         Stepped(r)

(* explored for the step sizes the arithmetic above represents *)
StepStepSubGradTV ==
    /\ Running("StepSubGradTV")
    /\ IsRational(net.parameter_groups[LayerKey(Len(ev.loc.ran))][Key("step_size")])
    /\ \E r \in {StepSubGradTV_layer(net, ev.x, ev.lbda, Len(ev.loc.ran), ev.loc)} :
         Stepped(r)

NextLayer ==
    \/ Next
    \/ Start
    \/ StepListaTV
    \/ StepLpgdTautString
    \/ StepCoupledCondatVu
    \/ StepStepCondatVu
    \/ StepStepSubGradTV

LayerSpec == Init /\ [][NextLayer]_vars

-----------------------------------------------------------------------------
(* v_to_u as a function of its arguments: UtilSpec draws the arguments,     *)
(* each optional one given or None, and calls it.                           *)

VValues == { << <<R(0)>> >>, << <<R(1)>> >> }
DValues == { << <<R(-1)>>, <<R(1)>> >> }

UtilArgs ==
    [v : VValues, x : XValues, lbda : LbdaValues,
     A : {None} \cup AValues, D : {None} \cup DValues,
     inv_A : {None} \cup {pinverse(A) : A \in AValues},
     Psi_A : {None} \cup {matmul(pinverse(A), D) : A \in AValues, D \in DValues}]

UtilInit ==
    /\ ctor = [variant |-> "none"]
    /\ built = "none"
    /\ net = None
    /\ ev = NoEval
    /\ \E a \in UtilArgs : util = [args |-> a, status |-> "none", value |-> None]

Called(r) ==
    /\ util' = [util EXCEPT !.status = r.status, !.value = r.value]
    /\ UNCHANGED <<ctor, built, net, ev>>

CallVToU ==
    /\ util.status = "none"
    /\ Called(v_to_u(util.args.v, util.args.x, util.args.lbda, util.args.A,
                     util.args.D, util.args.inv_A, util.args.Psi_A))

UtilSpec == UtilInit /\ [][CallVToU]_vars

-----------------------------------------------------------------------------
(* Properties.                                                              *)

(* the number of layers a forward call was asked for *)
Asked == IF ev.output_layer = None THEN net.n_layers ELSE ev.output_layer[1]

(* the u of the Variable Initializer for the observation of the evaluation *)
InitU == init_vuz_body(net.A, net.D, ev.x, ev.lbda, None).value.u

UpTo(k) == Tab(k, LAMBDA i : i - 1)

(* C1: for every variant, forward with output_layer = 0 completes without   *)
(* error and returns the u of init_vuz for that x, no layer applied.        *)
C1_ZeroLayersReturnsInitU ==
    (ev.kind = "forward" /\ ev.output_layer = <<0>>)
        => /\ ev.status = "ok"
           /\ ev.value = InitU
           /\ ev.loc.ran = <<>>

(* the loop of the network's forward, continued from layer_id *)
Continue(st, x, lbda, layer_id, output_layer) ==
    CASE st.self.variant = "ListaTV" ->
            ListaTV_loop(st, x, lbda, layer_id, output_layer)
      [] st.self.variant = "LpgdTautString" ->
            LpgdTautString_loop(st, x, lbda, layer_id, output_layer)
      [] st.self.variant = "CoupledCondatVu" ->
            CoupledCondatVu_loop(st, x, lbda, layer_id, output_layer)
      [] st.self.variant = "StepCondatVu" ->
            StepCondatVu_loop(st, x, lbda, layer_id, output_layer)
      [] st.self.variant = "StepSubGradTV" ->
            StepSubGradTV_loop(st, x, lbda, layer_id, output_layer)

ForwardOf(self, x, lbda, output_layer) ==
    CASE self.variant = "ListaTV" -> ListaTV_forward(self, x, lbda, output_layer)
      [] self.variant = "LpgdTautString" ->
            LpgdTautString_forward(self, x, lbda, output_layer)
      [] self.variant = "CoupledCondatVu" ->
            CoupledCondatVu_forward(self, x, lbda, output_layer)
      [] self.variant = "StepCondatVu" ->
            StepCondatVu_forward(self, x, lbda, output_layer)
      [] self.variant = "StepSubGradTV" ->
            StepSubGradTV_forward(self, x, lbda, output_layer)

(* C2: forward to layer k <= n_layers, continued with the transitions of    *)
(* layers k..n_layers-1, gives the u of forward with output_layer =         *)
(* n_layers.                                                                *)
C2_ContinuedForwardIsFullForward ==
    (ev.kind = "forward" /\ Asked <= net.n_layers)
        => LET full == ForwardOf(net, ev.x, ev.lbda, <<net.n_layers>>)
           IN  /\ ev.status = "ok"
               /\ full.ret.status = "ok"
               /\ Continue([self |-> net, loc |-> ev.loc], ev.x, ev.lbda, Asked,
                           net.n_layers).loc.u = full.ret.value

(* C3 as claimed: ListaTV is constructed only with learn_prox 'global' or   *)
(* 'per-layer'; 'none' and every other value fail, NotImplementedError.     *)
C3_NoneIsRejected ==
    (ctor.variant = "ListaTV")
        => /\ built = "ok" <=> ctor.learn_prox \in {LEARN_PROX_GLOBAL,
                                                    LEARN_PROX_PER_LAYER}
           /\ built # "ok" => built = "NotImplementedError"

(* C3, amended: ListaTV is constructed exactly when learn_prox is one of    *)
(* 'none', 'global', 'per-layer'; with 'none' the nested network is built   *)
(* and its parameters are not registered as a group; any other value fails  *)
(* with NotImplementedError and leaves no network.                          *)
C3_OnlyUnknownModesRejected ==
    (ctor.variant = "ListaTV")
        => /\ built = "ok" <=> ctor.learn_prox \in Range(ALL_LEARN_PROX)
           /\ built # "ok" => (built = "NotImplementedError" /\ net = None)
           /\ (built = "ok" /\ ctor.learn_prox = LEARN_PROX_FALSE)
                => /\ "prox_tv" \in DOMAIN net
                   /\ net.prox_tv.id = net.allocs
                   /\ "prox" \notin DOMAIN net.parameter_groups
           /\ (built = "ok" /\ ctor.learn_prox = LEARN_PROX_GLOBAL)
                => "prox" \in DOMAIN net.parameter_groups

C3_NoneIsBuilt ==
    /\ ctor.variant = "ListaTV"
    /\ ctor.learn_prox = LEARN_PROX_FALSE
    /\ built = "ok"
    /\ net.prox_tv.id = net.allocs

(* the stored sigma of layer_id *)
RawSigma(layer_id) == net.parameter_groups[LayerKey(layer_id)][Key("sigma")]

InStepCondatVuLoop ==
    /\ built = "ok"
    /\ net.variant = "StepCondatVu"
    /\ ev.kind = "recurrence"

(* C4: in every layer of StepCondatVu the sigma used is the stored sigma    *)
(* brought into [0.5, 2.0]: 0.5 below the range, 2.0 above, itself inside.  *)
C4_SigmaUsedIsClamped ==
    InStepCondatVuLoop
        => \A i \in 1..Len(ev.loc.sigma_used) :
             LET raw == RawSigma(i - 1)
                 used == ev.loc.sigma_used[i]
             IN  /\ RLe(Frac(1, 2), used) /\ RLe(used, R(2))
                 /\ RLt(raw, Frac(1, 2)) => used = Frac(1, 2)
                 /\ RLt(R(2), raw) => used = R(2)
                 /\ (RLe(Frac(1, 2), raw) /\ RLe(raw, R(2))) => used = raw

C4_SigmaTenUsedAsTwo ==
    /\ InStepCondatVuLoop
    /\ Len(ev.loc.sigma_used) = 2
    /\ RawSigma(0) = R(10) /\ ev.loc.sigma_used[1] = R(2)
    /\ RawSigma(1) = Frac(1, 4) /\ ev.loc.sigma_used[2] = Frac(1, 2)

(* C5: StepSubGradTV with every step_size 0: forward with any output_layer  *)
(* in 0..n_layers returns the u of the Variable Initializer.                *)
C5_ZeroStepForwardReturnsInitU ==
    ( /\ ev.kind = "forward"
      /\ net.variant = "StepSubGradTV"
      /\ Asked <= net.n_layers
      /\ \A i \in 0..(net.n_layers - 1) :
           net.parameter_groups[LayerKey(i)][Key("step_size")] = R(0) )
        => /\ ev.status = "ok"
           /\ ev.value = InitU

(* the stored parameters of a network: its groups and its nested networks *)
StoredParameters(self) ==
    [groups |-> self.parameter_groups,
     prox |-> IF "prox_tv" \in DOMAIN self THEN self.prox_tv ELSE None]

(* C6: no evaluation (a forward call, a layer of a recurrence) changes a    *)
(* stored parameter, the clamped sigma of StepCondatVu included.            *)
C6_EvaluationKeepsParameters ==
    [][built = "ok" => StoredParameters(net') = StoredParameters(net)]_vars

C6_ClampedLayerRanOnStoredTen ==
    /\ InStepCondatVuLoop
    /\ Len(ev.loc.sigma_used) = 1
    /\ ev.loc.sigma_used[1] = R(2)
    /\ RawSigma(0) = R(10)
    /\ net.parameter_groups = ctor.initial_parameters

(* C7: forward validates output_layer, then runs the layers 0..k-1 in       *)
(* order, once each, each on the group 'layer-<id>', and returns u.         *)
C7_RunsExactlyTheAskedLayers ==
    (ev.kind = "forward")
        => IF Asked > net.n_layers
           THEN ev.status = "ValueError"
           ELSE /\ ev.status = "ok"
                /\ ev.loc.ran = UpTo(Asked)
                /\ ev.loc.read = Tab(Asked, LAMBDA i : LayerKey(i - 1))
                /\ ev.value = ev.loc.u

StepOnly == {"StepCondatVu", "StepSubGradTV"}

InitialLayer(variant) ==
    IF variant = "StepCondatVu" THEN Key("sigma") :> Frac(1, 2)
    ELSE Key("step_size") :> <<1, 1, init_step_size_exp>>

WithoutLearnTh ==
    IF ctor.variant = "StepCondatVu"
    THEN StepCondatVu__init__(ctor.A, ctor.n_layers, FALSE, ctor.initial_parameters)
    ELSE StepSubGradTV__init__(ctor.A, ctor.n_layers, FALSE, ctor.initial_parameters)

(* C8: StepCondatVu and StepSubGradTV are constructed with learn_th = True  *)
(* as with False but for the notice: learn_th is False in the network and   *)
(* every initial layer holds only sigma = 0.5, or only step_size = 1e-10.   *)
C8_LearnThIsForcedOff ==
    (ctor.variant \in StepOnly)
        => /\ built = "ok"
           /\ net.learn_th = FALSE
           /\ ("print:learn_th" \in net.notices) <=> ctor.learn_th
           /\ DOMAIN net.parameter_groups =
                {LayerKey(i) : i \in 0..(ctor.n_layers - 1)}
           /\ \A i \in 0..(ctor.n_layers - 1) :
                LayerKey(i) \notin DOMAIN ctor.initial_parameters
                    => net.parameter_groups[LayerKey(i)] = InitialLayer(ctor.variant)
           /\ [net EXCEPT !.notices = {}] = WithoutLearnTh.value

C8_BuiltWithLearnTh ==
    /\ ctor.variant = "StepSubGradTV"
    /\ ctor.learn_th
    /\ ctor.n_layers = MaxLayers
    /\ DOMAIN ctor.initial_parameters = {}
    /\ built = "ok"
    /\ "print:learn_th" \in net.notices
    /\ DOMAIN net.parameter_groups[LayerKey(0)] = {Key("step_size")}

(* C9: without inv_A and Psi_A, v_to_u raises ValueError when A or D is     *)
(* missing, and with both computes them and returns u, u A = x - lbda v     *)
(* Psi^T for the invertible A drawn here.                                   *)
C9_NeedsOperatorsOrAD ==
    (util.status # "none" /\ util.args.inv_A = None /\ util.args.Psi_A = None)
        => IF util.args.A = None \/ util.args.D = None
           THEN util.status = "ValueError"
           ELSE /\ util.status = "ok"
                /\ matmul(util.value, util.args.A) =
                     MSub(util.args.x,
                          MScale(util.args.lbda,
                                 matmul(util.args.v,
                                        transpose(matmul(pinverse(util.args.A),
                                                         util.args.D)))))

C9_RaisedWithoutD ==
    /\ util.status = "ValueError"
    /\ util.args.A # None
    /\ util.args.D = None
    /\ util.args.inv_A = None

(* C10: per-layer ListaTV holds one nested network for each layer id        *)
(* 0..n_layers-1, all distinct, and layer i invokes the one stored under i; *)
(* global ListaTV holds one nested network, which every layer invokes.      *)
C10_OneProxPerLayerOrOneForAll ==
    (built = "ok" /\ net.variant = "ListaTV")
        => LET calls == IF ev.kind = "recurrence" THEN ev.loc.prox_calls ELSE <<>>
           IN  /\ net.learn_prox = LEARN_PROX_PER_LAYER
                    => /\ DOMAIN net.prox_tv = 0..(net.n_layers - 1)
                       /\ \A i, j \in DOMAIN net.prox_tv :
                            net.prox_tv[i].id = net.prox_tv[j].id => i = j
                       /\ net.allocs = net.n_layers
                       /\ \A i \in 1..Len(calls) : calls[i] = net.prox_tv[i - 1].id
               /\ net.learn_prox = LEARN_PROX_GLOBAL
                    => /\ net.allocs = 1
                       /\ \A i \in 1..Len(calls) : calls[i] = net.prox_tv.id

C10_EachLayerCalledItsOwnProx ==
    /\ built = "ok"
    /\ net.variant = "ListaTV"
    /\ net.learn_prox = LEARN_PROX_PER_LAYER
    /\ ev.kind = "recurrence"
    /\ DOMAIN ctor.initial_parameters = {LayerKey(0)}
    /\ Len(ev.loc.prox_calls) = MaxLayers
    /\ ev.loc.prox_calls[1] # ev.loc.prox_calls[MaxLayers]

(* C11: tau = 1 / (||A||^2 / 2 + sigma * ||D||^2) in both Condat-Vu         *)
(* variants: fixed at construction with sigma = 0.5 and rho = 1.0 in        *)
(* CoupledCondatVu, recomputed in every layer from the clamped sigma in     *)
(* StepCondatVu.                                                            *)
C11_TauSquaresEachNormOnce ==
    LET nA == norm2_squared(net.A)
        nD == norm2_squared(net.D)
        tau(sigma) == RDiv(R(1), RAdd(RDiv(nA, R(2)), RMul(sigma, nD)))
    IN  /\ (built = "ok" /\ net.variant = "CoupledCondatVu")
              => /\ net.sigma = Frac(1, 2)
                 /\ net.rho = R(1)
                 /\ net.tau = tau(net.sigma)
                 /\ ev.kind = "recurrence"
                      => \A i \in 1..Len(ev.loc.tau_used) :
                           ev.loc.tau_used[i] = net.tau
        /\ InStepCondatVuLoop
              => \A i \in 1..Len(ev.loc.tau_used) :
                   ev.loc.tau_used[i] = tau(ev.loc.sigma_used[i])

=============================================================================
